---- MODULE Spec2Model ----
(***************************************************************************)
(* Model of the tool-calling dispatch loop of Tome (src/lib/dispatch.ts,   *)
(* quoted in ENGINE_ANALYSIS.md section 4.4) running against an engine     *)
(* client whose chat() returns one canonical assistant Message.            *)
(*                                                                         *)
(* dispatch is an async function; every `await` is a point where the       *)
(* outside world acts, so the model has one action per awaited outcome:    *)
(*   session.tools()      -> ListToolsReturns / ListToolsFails             *)
(*   engine.client.chat() -> ChatReturns / ChatFails                       *)
(*   invoke(call_mcp_tool)-> ToolReturns / ToolFails                       *)
(*   session.addMessage() -> SaveCall, SaveResult                          *)
(*   message.save()       -> SaveFinal                                     *)
(* The synchronous code that runs between two awaits belongs to the action *)
(* of the await that precedes it.                                          *)
(***************************************************************************)
EXTENDS Integers, Sequences, FiniteSets, TLC

\* ---------------------------------------------------------------- bounds
\* Largest number of provider chat calls explored in one dispatch.
MaxRounds == 2
\* Largest number of tool calls in one provider reply.
MaxBatch == 2

\* ------------------------------------------------------- canonical model
\* A tool-call id: absent (undefined / '' in the code, both falsy), an id
\* chosen by the provider, or an id made by uuid4().
NoId == [src |-> "none", n |-> 0]
ProviderIds == {[src |-> "provider", n |-> 1]}
uuid4(k) == [src |-> "uuid", n |-> k]

ToolNames == {"get_weather", "get_time"}
ToolArgs == {"NYC"}
ToolResults == {"sunny", "error: timeout"}
Texts == {"", "hi"}
Thoughts == {"", "hmm"}

\* Session and model the dispatch runs for.
SessionId == "s1"
EngineId == "e1"
ModelName == "claude-3-opus-latest"
ModelId == "anthropic:claude-3-opus-latest"
Undefined == "undefined"

\* ToolCall (engines/types.ts): id?, function.name, function.arguments.
ToolCall(id, name, arguments) ==
    [id |-> id, name |-> name, arguments |-> arguments]

ProviderCalls ==
    {ToolCall(i, nm, a) : i \in ProviderIds \cup {NoId}, nm \in ToolNames, a \in ToolArgs}

CallBatches == UNION {[1..n -> ProviderCalls] : n \in 0..MaxBatch}

\* Message.new(...): a canonical message; fields not given are undefined.
NewMessage(role, content, thought, toolCalls, toolCallId, sessionId, engineId, model) ==
    [role |-> role, content |-> content, thought |-> thought,
     toolCalls |-> toolCalls, toolCallId |-> toolCallId,
     sessionId |-> sessionId, engineId |-> engineId, model |-> model]

\* What chat() resolves to: Message.new({model: model.name, role:
\* 'assistant', content, thought, toolCalls}).
ChatMessage(content, thought, toolCalls) ==
    NewMessage("assistant", content, thought, toolCalls, NoId,
               Undefined, Undefined, ModelName)

ChatMessages ==
    {ChatMessage(c, t, b) : c \in Texts, t \in Thoughts, b \in CallBatches}

NoMessage == ChatMessage("", "", <<>>)
NoCall == ToolCall(NoId, "", "")

UserMessage(text) ==
    NewMessage("user", text, "", <<>>, NoId, SessionId, Undefined, Undefined)

\* session.addMessage({role: 'assistant', content: '', toolCalls: [call]})
AssistantCallMessage(c) ==
    NewMessage("assistant", "", "", <<c>>, NoId, SessionId, Undefined, Undefined)

\* Slip: the tool message is saved without the collaborator's answer.
ToolResultMessageEmpty(text, c) ==
    NewMessage("tool", "", "", <<>>, c.id, SessionId, Undefined, Undefined)

\* session.addMessage({role: 'tool', content, toolCallId: call.id})
ToolResultMessage(text, c) ==
    NewMessage("tool", text, "", <<>>, c.id, SessionId, Undefined, Undefined)

\* Slip: the session is not stamped on the final message.
StampNoSession(m) ==
    [m EXCEPT !.engineId = EngineId, !.model = ModelId]

\* message.engineId = model.engineId; message.model = String(model.id);
\* message.sessionId = session.id
Stamp(m) ==
    [m EXCEPT !.engineId = EngineId, !.model = ModelId, !.sessionId = SessionId]

\* call.id ||= uuid4(): k ids were made before, the next one is fresh.
EnsureId(c, k) == IF c.id = NoId THEN [c EXCEPT !.id = uuid4(k + 1)] ELSE c

\* ------------------------------------------------------------------ state
VARIABLES
    pc,            \* where the dispatch is: which await it is suspended on
    history,       \* session.messages: the persisted conversation
    request,       \* the history handed to the chat call last issued
    message,       \* the reply of the current frame's chat call
    call,          \* the tool call being handled (id already ensured)
    content,       \* the string call_mcp_tool resolved to
    returned,      \* the message dispatch resolved to
    error,         \* the failure dispatch rejected with
    chatCalls,     \* number of chat calls issued
    chatInFlight,  \* chat calls issued and not yet settled
    toolInFlight,  \* call_mcp_tool invocations issued and not yet settled
    toolLog,       \* the call_mcp_tool invocations issued, with their outcome
    uuids,         \* number of ids made by uuid4()
    adapter,       \* one adapter call (chat or connected), see the adapters
    sync           \* the model sync of the engines, see the engine registry

vars == <<pc, history, request, message, call, content, returned, error,
          chatCalls, chatInFlight, toolInFlight, toolLog, uuids>>

Invocation(c, outcome, result) ==
    [name |-> c.name, arguments |-> c.arguments, id |-> c.id,
     outcome |-> outcome, result |-> result]

InitialHistory == <<UserMessage("What's the weather in NYC?")>>

Init ==
    /\ pc = "start"
    /\ history = InitialHistory
    /\ request = <<>>
    /\ message = NoMessage
    /\ call = NoCall
    /\ content = ""
    /\ returned = NoMessage
    /\ error = "none"
    /\ chatCalls = 0
    /\ chatInFlight = 0
    /\ toolInFlight = 0
    /\ toolLog = <<>>
    /\ uuids = 0

\* ---------------------------------------------------------------- actions
\* The caller invokes dispatch(session, model): Engine.find, build options,
\* then `await session.tools()`.
EnterDispatch ==
    /\ pc = "start"
    /\ pc' = "awaitTools"
    /\ UNCHANGED <<history, request, message, call, content, returned, error,
                   chatCalls, chatInFlight, toolInFlight, toolLog, uuids>>
    /\ UNCHANGED <<adapter, sync>>

\* session.tools() resolved: engine.client.chat(model, session.messages,
\* tools, options) is issued.
ListToolsReturns ==
    /\ pc = "awaitTools"
    /\ chatCalls < MaxRounds
    /\ pc' = "awaitChat"
    /\ request' = history
    /\ chatCalls' = chatCalls + 1
    /\ chatInFlight' = chatInFlight + 1
    /\ UNCHANGED <<history, message, call, content, returned, error,
                   toolInFlight, toolLog, uuids>>
    /\ UNCHANGED <<adapter, sync>>

\* session.tools() rejected: the rejection propagates out of dispatch.
ListToolsFails ==
    /\ pc = "awaitTools"
    /\ pc' = "failed"
    /\ error' = "ToolListFailure"
    /\ UNCHANGED <<history, request, message, call, content, returned,
                   chatCalls, chatInFlight, toolInFlight, toolLog, uuids>>
    /\ UNCHANGED <<adapter, sync>>

\* Slip: the loop handles the last call of the batch instead of the first.
HandleToolCallsLast(m) ==
    LET n == Len(m.toolCalls)
        c == EnsureId(m.toolCalls[n], uuids) IN
    /\ call' = c
    /\ message' = [m EXCEPT !.toolCalls[n] = c]
    /\ uuids' = IF m.toolCalls[n].id = NoId THEN uuids + 1 ELSE uuids
    /\ toolLog' = Append(toolLog, Invocation(c, "pending", ""))
    /\ toolInFlight' = toolInFlight + 1
    /\ pc' = "awaitTool"
    /\ UNCHANGED <<history, content>>

\* Slip: the assistant message is saved before call_mcp_tool is invoked.
HandleToolCallsPersistFirst(m) ==
    LET c == EnsureId(m.toolCalls[1], uuids) IN
    /\ call' = c
    /\ message' = [m EXCEPT !.toolCalls[1] = c]
    /\ uuids' = IF m.toolCalls[1].id = NoId THEN uuids + 1 ELSE uuids
    /\ toolLog' = Append(toolLog, Invocation(c, "pending", ""))
    /\ toolInFlight' = toolInFlight + 1
    /\ pc' = "awaitTool"
    /\ history' = Append(history, AssistantCallMessage(c))
    /\ UNCHANGED content

\* chat() resolved with a message carrying tool calls: the for loop takes
\* the first call, ensures its id (in place, so the message sees it too) and
\* issues call_mcp_tool.
HandleToolCalls(m) ==
    LET c == EnsureId(m.toolCalls[1], uuids) IN
    /\ call' = c
    /\ message' = [m EXCEPT !.toolCalls[1] = c]
    /\ uuids' = IF m.toolCalls[1].id = NoId THEN uuids + 1 ELSE uuids
    /\ toolLog' = Append(toolLog, Invocation(c, "pending", ""))
    /\ toolInFlight' = toolInFlight + 1
    /\ pc' = "awaitTool"
    /\ UNCHANGED <<history, content>>

\* chat() resolved with a message without tool calls: stamp it and
\* `await message.save()`.
HandleFinal(m) ==
    /\ message' = Stamp(m)
    /\ pc' = "saveFinal"
    /\ UNCHANGED <<history, call, content, toolLog, toolInFlight, uuids>>

ChatReturns(m) ==
    /\ pc = "awaitChat"
    /\ chatInFlight' = chatInFlight - 1
    /\ IF Len(m.toolCalls) > 0 THEN HandleToolCalls(m) ELSE HandleFinal(m)
    /\ UNCHANGED <<request, returned, error, chatCalls>>
    /\ UNCHANGED <<adapter, sync>>

\* Slip: the failure of chat is saved as a message of the conversation.
ChatFailsSavesError ==
    /\ pc = "awaitChat"
    /\ pc' = "failed"
    /\ error' = "ProviderCallError"
    /\ chatInFlight' = chatInFlight - 1
    /\ history' = Append(history, Stamp(ChatMessage("ProviderCallError", "", <<>>)))
    /\ UNCHANGED <<request, message, call, content, returned,
                   chatCalls, toolInFlight, toolLog, uuids>>
    /\ UNCHANGED <<adapter, sync>>

\* chat() rejected (client.chat logs and rethrows): dispatch rejects.
ChatFails ==
    /\ pc = "awaitChat"
    /\ pc' = "failed"
    /\ error' = "ProviderCallError"
    /\ chatInFlight' = chatInFlight - 1
    /\ UNCHANGED <<history, request, message, call, content, returned,
                   chatCalls, toolInFlight, toolLog, uuids>>
    /\ UNCHANGED <<adapter, sync>>

\* call_mcp_tool resolved with a string: session.addMessage(assistant) is
\* issued.
ToolReturns(v) ==
    /\ pc = "awaitTool"
    /\ content' = v
    /\ toolLog' = [toolLog EXCEPT ![Len(toolLog)].outcome = "returned",
                                  ![Len(toolLog)].result = v]
    /\ toolInFlight' = toolInFlight - 1
    /\ pc' = "saveCall"
    /\ UNCHANGED <<history, request, message, call, returned, error,
                   chatCalls, chatInFlight, uuids>>
    /\ UNCHANGED <<adapter, sync>>

\* Slip: the assistant message of the failed call is saved.
ToolFailsKeepsCall ==
    /\ pc = "awaitTool"
    /\ toolLog' = [toolLog EXCEPT ![Len(toolLog)].outcome = "rejected",
                                  ![Len(toolLog)].result = "boom"]
    /\ toolInFlight' = toolInFlight - 1
    /\ pc' = "failed"
    /\ error' = "ToolExecutionFailure"
    /\ history' = Append(history, AssistantCallMessage(call))
    /\ UNCHANGED <<request, message, call, content, returned,
                   chatCalls, chatInFlight, uuids>>
    /\ UNCHANGED <<adapter, sync>>

\* call_mcp_tool rejected: there is no try/catch around invoke, so dispatch
\* rejects with the tool's failure.
ToolFails ==
    /\ pc = "awaitTool"
    /\ toolLog' = [toolLog EXCEPT ![Len(toolLog)].outcome = "rejected",
                                  ![Len(toolLog)].result = "boom"]
    /\ toolInFlight' = toolInFlight - 1
    /\ pc' = "failed"
    /\ error' = "ToolExecutionFailure"
    /\ UNCHANGED <<history, request, message, call, content, returned,
                   chatCalls, chatInFlight, uuids>>
    /\ UNCHANGED <<adapter, sync>>

\* Slip: the reply is saved as it came, text and reasoning included.
SaveCallKeepsReply ==
    /\ pc = "saveCall"
    /\ history' = Append(history, [AssistantCallMessage(call) EXCEPT
                                      !.content = message.content,
                                      !.thought = message.thought])
    /\ pc' = "saveResult"
    /\ UNCHANGED <<request, message, call, content, returned, error,
                   chatCalls, chatInFlight, toolInFlight, toolLog, uuids>>
    /\ UNCHANGED <<adapter, sync>>

\* Slip: the second addMessage is not awaited, the next frame starts before
\* the tool message is persisted.
SaveCallNoAwait ==
    /\ pc = "saveCall"
    /\ history' = Append(history, AssistantCallMessage(call))
    /\ pc' = "awaitTools"
    /\ UNCHANGED <<request, message, call, content, returned, error,
                   chatCalls, chatInFlight, toolInFlight, toolLog, uuids>>
    /\ UNCHANGED <<adapter, sync>>

\* The first addMessage completed: the assistant message with the one call
\* is persisted, the second addMessage is issued.
SaveCall ==
    /\ pc = "saveCall"
    /\ history' = Append(history, AssistantCallMessage(call))
    /\ pc' = "saveResult"
    /\ UNCHANGED <<request, message, call, content, returned, error,
                   chatCalls, chatInFlight, toolInFlight, toolLog, uuids>>
    /\ UNCHANGED <<adapter, sync>>

\* The second addMessage completed: the tool message is persisted and
\* `return await dispatch(session, model)` enters the next frame, which runs
\* up to its `await session.tools()`.
SaveResult ==
    /\ pc = "saveResult"
    /\ history' = Append(history, ToolResultMessage(content, call))
    /\ pc' = "awaitTools"
    /\ UNCHANGED <<request, message, call, content, returned, error,
                   chatCalls, chatInFlight, toolInFlight, toolLog, uuids>>
    /\ UNCHANGED <<adapter, sync>>

\* Slip: dispatch resolves to the message without saving it.
SaveFinalReturnsUnsaved ==
    /\ pc = "saveFinal"
    /\ returned' = message
    /\ pc' = "done"
    /\ UNCHANGED <<history, request, message, call, content, error,
                   chatCalls, chatInFlight, toolInFlight, toolLog, uuids>>
    /\ UNCHANGED <<adapter, sync>>

\* Slip: the final message is written over the last persisted message.
SaveFinalOverwrites ==
    /\ pc = "saveFinal"
    /\ history' = [history EXCEPT ![Len(history)] = message]
    /\ returned' = message
    /\ pc' = "done"
    /\ UNCHANGED <<request, message, call, content, error,
                   chatCalls, chatInFlight, toolInFlight, toolLog, uuids>>
    /\ UNCHANGED <<adapter, sync>>

\* message.save() completed: dispatch resolves to the stamped message.
SaveFinal ==
    /\ pc = "saveFinal"
    /\ history' = Append(history, message)
    /\ returned' = message
    /\ pc' = "done"
    /\ UNCHANGED <<request, message, call, content, error,
                   chatCalls, chatInFlight, toolInFlight, toolLog, uuids>>
    /\ UNCHANGED <<adapter, sync>>

Next ==
    \/ EnterDispatch
    \/ ListToolsReturns
    \/ ListToolsFails
    \/ \E m \in ChatMessages : ChatReturns(m)
    \/ ChatFails
    \/ \E v \in ToolResults : ToolReturns(v)
    \/ ToolFails
    \/ SaveCall
    \/ SaveResult
    \/ SaveFinal


\* ================================================================ adapters
\* The engine clients (anthropic, gemini, openai, ollama): what chat() puts
\* into the provider request for a history, and what connected() does.

\* Longest history handed to an adapter.
MaxHist == 3

Kinds == {"anthropic", "gemini", "openai", "ollama"}

SystemMessage(text) ==
    NewMessage("system", text, "", <<>>, NoId, SessionId, Undefined, Undefined)

\* An assistant message as message.save() persisted it.
SavedAssistant(text, thought, calls) ==
    NewMessage("assistant", text, thought, calls, NoId, SessionId, EngineId, ModelId)

PoolCall == ToolCall([src |-> "provider", n |-> 1], "get_weather", "NYC")

\* The messages adapter histories are made of.
MessagePool ==
    { SystemMessage("A"), SystemMessage("B"), UserMessage("hi"),
      SavedAssistant("", "", <<>>),
      SavedAssistant("ok", "hmm", <<PoolCall>>),
      ToolResultMessage("sunny", PoolCall) }

Histories == UNION {[1..n -> MessagePool] : n \in 0..MaxHist}

\* Histories that try the translation of one message: an assistant message
\* of any content, thought and calls, and a tool result after two calls.
PoolCall2 == ToolCall([src |-> "provider", n |-> 2], "get_time", "NYC")

AssistantMessages ==
    {SavedAssistant(text, thought, calls) :
        text \in {"", "ok"}, thought \in {"", "hmm"},
        calls \in UNION {[1..n -> {PoolCall, PoolCall2}] : n \in 0..MaxBatch}}

TranslationHistories ==
    {<<m>> : m \in AssistantMessages}
    \cup
    {<<SavedAssistant("", "", <<a>>), SavedAssistant("", "", <<b>>),
       ToolResultMessage("sunny", c)>> : a, b, c \in {PoolCall, PoolCall2}}

\* Options.temperature in thousandths; it may be unset.
NoTemp == [set |-> FALSE, v |-> 0]
Temp(v) == [set |-> TRUE, v |-> v]
Temps == {NoTemp} \cup {Temp(v) : v \in {0, 5, 10, 500, 1000, 1500}}

\* clamp(options.temperature ?? 0.8, 0.01, 1), in thousandths.
TempMin == 10
TempMax == 1000
TempDefault == 800

Min2(a, b) == IF a < b THEN a ELSE b
Max2(a, b) == IF a > b THEN a ELSE b

\* Slip: the upper end of the range is not enforced.
clampNoMax(value, min, max) == Max2(value, min)

\* Math.min(Math.max(value, min), max)
clamp(value, min, max) == Min2(Max2(value, min), max)

\* options.temperature ?? d
OrDefault(t, d) == IF t.set THEN t.v ELSE d

\* Array.filter
Filter(q, Keep(_)) == SelectSeq(q, Keep)

\* Array.join(sep) of a sequence of strings
RECURSIVE Join(_, _)
Join(q, sep) ==
    IF q = <<>> THEN ""
    ELSE IF Len(q) = 1 THEN q[1]
    ELSE q[1] \o sep \o Join(Tail(q), sep)

\* Array.flatMap(m => m.toolCalls)
RECURSIVE FlatCalls(_)
FlatCalls(h) == IF h = <<>> THEN <<>> ELSE h[1].toolCalls \o FlatCalls(Tail(h))

\* Array.find(tc => tc.id === id): the first match, or NoCall (undefined).
RECURSIVE FindCall(_, _)
FindCall(calls, id) ==
    IF calls = <<>> THEN NoCall
    ELSE IF calls[1].id = id THEN calls[1] ELSE FindCall(Tail(calls), id)

\* One content unit of a provider turn.
Unit(type, text, id, name, input) ==
    [type |-> type, text |-> text, id |-> id, name |-> name, input |-> input]
TextUnit(text) == Unit("text", text, NoId, "", "")
ThinkingUnit(text) == Unit("thinking", text, NoId, "", "")
CallUnit(type, c) == Unit(type, "", c.id, c.name, c.arguments)
ResultUnit(type, id, name, text) == Unit(type, text, id, name, "")

Turn(role, units) == [role |-> role, units |-> units]
\* undefined: removed from the turn list by compact().
NoTurn == Turn("undefined", <<>>)

LineBreaks == "\n\n"
IsSystem(m) == m.role = "system"
NotSystem(m) == m.role # "system"
Contents(h) == [i \in DOMAIN h |-> h[i].content]

\* ---- anthropic/message.ts
\* user(message)
AnthropicUser(m) == Turn("user", <<TextUnit(m.content)>>)

\* Slip: an assistant message that yields no unit is sent without units.
AnthropicAssistantNoFallback(m) ==
    Turn("assistant",
         (IF m.thought # "" THEN <<ThinkingUnit(m.thought)>> ELSE <<>>)
         \o (IF m.content # "" THEN <<TextUnit(m.content)>> ELSE <<>>)
         \o [k \in DOMAIN m.toolCalls |-> CallUnit("tool_use", m.toolCalls[k])])

\* assistant(message): thinking, text, one tool_use per call; a single empty
\* text unit when there is none of them.
AnthropicAssistant(m) ==
    LET units ==
            (IF m.thought # "" THEN <<ThinkingUnit(m.thought)>> ELSE <<>>)
            \o (IF m.content # "" THEN <<TextUnit(m.content)>> ELSE <<>>)
            \o [k \in DOMAIN m.toolCalls |-> CallUnit("tool_use", m.toolCalls[k])]
    IN Turn("assistant", IF Len(units) > 0 THEN units ELSE <<TextUnit("")>>)

\* The first call of the session is taken, whatever its id.
AnthropicToolResponseFirstCall(m, sessionMessages) ==
    LET c == IF FlatCalls(sessionMessages) = <<>> THEN NoCall
             ELSE FlatCalls(sessionMessages)[1]
    IN Turn("user", <<ResultUnit("tool_result", c.id, "", m.content)>>)

\* toolResponse(message): sessionMessages is Session.find(...).messages.
AnthropicToolResponse(m, sessionMessages) ==
    LET c == FindCall(FlatCalls(sessionMessages), m.toolCallId)
    IN Turn("user", <<ResultUnit("tool_result", c.id, "", m.content)>>)

toAnthropic(m, sessionMessages) ==
    CASE m.role = "system" -> NoTurn
      [] m.role = "assistant" -> AnthropicAssistant(m)
      [] m.role = "tool" -> AnthropicToolResponse(m, sessionMessages)
      [] OTHER -> AnthropicUser(m)

\* ---- gemini/message.ts
\* fromToolCall(message): undefined when there is no call, else the first.
GeminiFromToolCall(m) ==
    IF Len(m.toolCalls) = 0 THEN NoTurn
    ELSE Turn("model", <<CallUnit("functionCall", m.toolCalls[1])>>)

GeminiFromToolResponse(m, sessionMessages) ==
    LET c == FindCall(FlatCalls(sessionMessages), m.toolCallId)
    IN Turn("user", <<ResultUnit("functionResponse", NoId, c.name, m.content)>>)

GeminiFrom(m, sessionMessages) ==
    CASE m.role = "user" -> Turn("user", <<TextUnit(m.content)>>)
      [] m.role = "assistant" /\ m.content = "" -> GeminiFromToolCall(m)
      [] m.role = "assistant" /\ m.content # "" -> Turn("model", <<TextUnit(m.content)>>)
      [] m.role = "tool" -> GeminiFromToolResponse(m, sessionMessages)
      [] OTHER -> NoTurn

\* ---- openai/message.ts: a flat turn, its content and its tool_calls.
OpenAiFrom(m) ==
    CASE m.role = "assistant" ->
            Turn("assistant",
                 <<TextUnit(m.content)>>
                 \o [k \in DOMAIN m.toolCalls |-> CallUnit("function", m.toolCalls[k])])
      [] m.role = "system" -> Turn("system", <<TextUnit(m.content)>>)
      [] m.role = "tool" ->
            Turn("tool", <<ResultUnit("tool_result", m.toolCallId, "", m.content)>>)
      [] OTHER -> Turn("user", <<TextUnit(m.content)>>)

\* ---- ollama/message.ts: role and content as they are, calls without id.
OllamaFrom(m) ==
    Turn(m.role,
         <<TextUnit(m.content)>>
         \o [k \in DOMAIN m.toolCalls |->
                Unit("function", "", NoId, m.toolCalls[k].name, m.toolCalls[k].arguments)])

\* Array.compact(): undefined entries removed.
IsTurn(t) == t # NoTurn
Compact(turns) == SelectSeq(turns, IsTurn)

\* The out-of-band system text of a request; it may be unset.
\* ---- tool definitions (engines/types.ts Tool, Property) and their
\* translation by each adapter.  A property without a type has Undefined.
Property(type, description, anyOf) ==
    [type |-> type, description |-> description, anyOf |-> anyOf]

Tool(shape, name, description, type, required, properties) ==
    [shape |-> shape, name |-> name, description |-> description,
     type |-> type, required |-> required, properties |-> properties]

PropTypes == {"string", "number", "boolean", "integer", "array", "object",
              "null", Undefined}

Properties == {Property(type, "a field", anyOf) :
                  type \in PropTypes, anyOf \in BOOLEAN}

PropNames == {"location", "unit"}

\* The tools listTools can give: one function, any properties.
CanonicalTools ==
    {Tool("function", "get_weather", "Weather of a city", "object", required, props) :
        required \in {<<>>, <<"location">>},
        props \in UNION {[S -> Properties] : S \in SUBSET PropNames}}

\* params.tools / config.tools / completion.tools: unset, or the list sent
NoTools == [set |-> FALSE, v |-> <<>>]
Tools(v) == [set |-> TRUE, v |-> v]

\* The required list is left out.
normalizeDropsRequired(tool) ==
    Tool("function", tool.name, tool.description, "object", <<>>, tool.properties)

\* anthropic/tool.ts normalize, wrapped by toAnthropicTools
normalize(tool) ==
    Tool("function", tool.name, tool.description, "object", tool.required,
         tool.properties)

toAnthropicTools(tools) == [i \in DOMAIN tools |-> normalize(tools[i])]

\* gemini/tool.ts toGeminiType: the Type enum, STRING for any other type
toGeminiType(type) ==
    CASE type = "string" -> "STRING"
      [] type = "number" -> "NUMBER"
      [] type = "boolean" -> "BOOLEAN"
      [] type = "integer" -> "INTEGER"
      [] type = "array" -> "ARRAY"
      [] type = "object" -> "OBJECT"
      [] OTHER -> "STRING"

\* gemini/tool.ts fromOne: the type of a property is mapped when the
\* property has one and has no anyOf; everything else is spread over.
GeminiFromOne(tool) ==
    Tool("functionDeclaration", tool.name, tool.description, "OBJECT", tool.required,
         [n \in DOMAIN tool.properties |->
             LET prop == tool.properties[n]
             IN IF prop.type # Undefined /\ ~prop.anyOf
                THEN [prop EXCEPT !.type = toGeminiType(prop.type)]
                ELSE prop])

GeminiFromMany(tools) == [i \in DOMAIN tools |-> GeminiFromOne(tools[i])]

\* What each chat puts into its request for the tools it was given.
RequestTools(kind, tools) ==
    CASE kind = "anthropic" ->
            IF Len(tools) > 0 THEN Tools(toAnthropicTools(tools)) ELSE NoTools
      [] kind = "gemini" ->
            IF Len(tools) > 0 THEN Tools(GeminiFromMany(tools)) ELSE NoTools
      [] kind = "openai" ->
            IF Len(tools) > 0 THEN Tools(tools) ELSE NoTools
      [] kind = "ollama" -> Tools(tools)

NoSystem == [set |-> FALSE, v |-> ""]
System(text) == [set |-> TRUE, v |-> text]

Request(system, turns, temperature) ==
    [system |-> system, turns |-> turns, temperature |-> temperature]

\* The request with the tools it carries.
WithTools(req, tools) ==
    [system |-> req.system, turns |-> req.turns,
     temperature |-> req.temperature, tools |-> tools]

NoRequest == WithTools(Request(NoSystem, <<>>, NoTemp), NoTools)

\* AnthropicClient.chat: params
AnthropicRequest(h, t) ==
    LET system == Join(Contents(Filter(h, IsSystem)), LineBreaks)
    IN Request(IF system # "" THEN System(system) ELSE NoSystem,
               Compact([i \in DOMAIN h |-> toAnthropic(h[i], h)]),
               Temp(clamp(OrDefault(t, TempDefault), TempMin, TempMax)))

\* Gemini.chat: contents and config
GeminiRequest(h, t) ==
    LET systemMessages == Filter(h, IsSystem)
        nonSystemMessages == Filter(h, NotSystem)
    IN Request(IF Len(systemMessages) > 0
                  THEN System(Join(Contents(systemMessages), LineBreaks))
                  ELSE NoSystem,
               Compact([i \in DOMAIN nonSystemMessages |->
                           GeminiFrom(nonSystemMessages[i], h)]),
               t)

\* OpenAI.chat: completion (the options are not used)
OpenAiRequest(h, t) ==
    Request(NoSystem, [i \in DOMAIN h |-> OpenAiFrom(h[i])], NoTemp)

\* Ollama.chat: messages and options
OllamaRequest(h, t) ==
    Request(NoSystem, [i \in DOMAIN h |-> OllamaFrom(h[i])], t)

BuildRequest(kind, h, t, tools) ==
    WithTools(CASE kind = "anthropic" -> AnthropicRequest(h, t)
                [] kind = "gemini" -> GeminiRequest(h, t)
                [] kind = "openai" -> OpenAiRequest(h, t)
                [] kind = "ollama" -> OllamaRequest(h, t),
              RequestTools(kind, tools))

\* ---- response ingestion: the provider's reply and the canonical message
\* chat makes of it.
\* Arguments on the wire of a provider that serializes them, and JSON.parse.
GoodArguments == "{\"location\":\"NYC\"}"
BadArguments == "{\"location\":"
SyntaxError == "SyntaxError"
TypeError == "TypeError"

JSONParse(text) == IF text = GoodArguments THEN "NYC" ELSE SyntaxError

\* A tool-invocation unit of a reply: id (NoId when the provider gives
\* none), name and arguments.
ReplyCall(id, name, arguments) == [id |-> id, name |-> name, arguments |-> arguments]

CallLists(pool) == UNION {[1..n -> pool] : n \in 0..MaxBatch}

\* anthropic: response.content, a list of blocks
AnthropicBlocks ==
    {TextUnit("hi"), ThinkingUnit("hmm"),
     CallUnit("tool_use", ToolCall([src |-> "provider", n |-> 1], "get_weather", "NYC")),
     CallUnit("tool_use", ToolCall([src |-> "provider", n |-> 2], "get_time", "NYC"))}

AnthropicReplies == {[content |-> q] : q \in CallLists(AnthropicBlocks)}

\* openai: response.choices[0].message
OpenAiReplies ==
    {[role |-> "assistant", content |-> c, tool_calls |-> q] :
        c \in {Undefined, "hi"},
        q \in CallLists({ReplyCall([src |-> "provider", n |-> 1], "get_weather", a) :
                            a \in {GoodArguments, BadArguments}})}

\* gemini: {text, functionCalls}
GeminiReplies ==
    {[text |-> c, functionCalls |-> q] :
        c \in {Undefined, "hi"},
        q \in CallLists({ReplyCall([src |-> "provider", n |-> 1], "get_weather", "NYC"),
                         ReplyCall(NoId, "get_time", "NYC")})}

\* ollama: response.message; the content is a string, here a sequence of
\* its pieces so that the replace and split calls can be followed.
OllamaContents ==
    {<<>>, <<"hi">>, <<"hi", ".">>, <<"\"", "hi", "\"">>,
     <<"<think>", "hmm", "</think>", "hi">>,
     <<"<think>", "hmm", "</think>", "hi", "</think>", "ho">>,
     <<"<think>", "hmm">>}

OllamaReplies ==
    {[content |-> c, tool_calls |-> q] :
        c \in OllamaContents,
        q \in CallLists({ReplyCall(NoId, "get_weather", "NYC")})}

Replies(kind) ==
    CASE kind = "anthropic" -> AnthropicReplies
      [] kind = "gemini" -> GeminiReplies
      [] kind = "openai" -> OpenAiReplies
      [] kind = "ollama" -> OllamaReplies

\* The reply of a provider that answers "hi".
DefaultReply(kind) ==
    CASE kind = "anthropic" -> [content |-> <<TextUnit("hi")>>]
      [] kind = "gemini" -> [text |-> "hi", functionCalls |-> <<>>]
      [] kind = "openai" -> [role |-> "assistant", content |-> "hi", tool_calls |-> <<>>]
      [] kind = "ollama" -> [content |-> <<"hi">>, tool_calls |-> <<>>]
      [] OTHER -> [content |-> <<>>]

IsTextBlock(u) == u.type = "text"
IsThinkingBlock(u) == u.type = "thinking"
IsToolUseBlock(u) == u.type = "tool_use"
BlockTexts(q) == [i \in DOMAIN q |-> q[i].text]

\* String.trim; no text of the replies has outer white space.
Trim(text) == text

\* AnthropicClient.toMessage
toMessage(response) ==
    LET uses == SelectSeq(response.content, IsToolUseBlock)
    IN ChatMessage(Trim(Join(BlockTexts(SelectSeq(response.content, IsTextBlock)), "\n\n")),
                   Trim(Join(BlockTexts(SelectSeq(response.content, IsThinkingBlock)), "\n\n")),
                   [i \in DOMAIN uses |-> ToolCall(uses[i].id, uses[i].name, uses[i].input)])

OrEmpty(text) == IF text = Undefined THEN "" ELSE text

\* An unparsable call is skipped.
OpenAiThrowsNever(reply) == FALSE

\* OpenAI.chat: JSON.parse of a call's arguments throws
OpenAiThrows(reply) ==
    \E i \in DOMAIN reply.tool_calls :
        JSONParse(reply.tool_calls[i].arguments) = SyntaxError

IsParsable(c) == JSONParse(c.arguments) # SyntaxError

\* OpenAI.chat after the await: the calls without their id (it is reached
\* with calls that all parse)
OpenAiMessage(reply) ==
    LET calls == SelectSeq(reply.tool_calls, IsParsable)
    IN [ChatMessage(OrEmpty(reply.content), "",
                    [i \in DOMAIN calls |->
                        ToolCall(NoId, calls[i].name, JSONParse(calls[i].arguments))])
          EXCEPT !.role = reply.role]

\* Gemini.chat after the await: the calls without their id
GeminiMessage(reply) ==
    ChatMessage(OrEmpty(reply.text), "",
                [i \in DOMAIN reply.functionCalls |->
                    ToolCall(NoId, reply.functionCalls[i].name,
                             reply.functionCalls[i].arguments)])

\* content.replace(/\.$/, '').replace(/^"/, '').replace(/"$/, '')
StripEnd(q, piece) ==
    IF q # <<>> /\ q[Len(q)] = piece THEN SubSeq(q, 1, Len(q) - 1) ELSE q
StripStart(q, piece) ==
    IF q # <<>> /\ q[1] = piece THEN Tail(q) ELSE q
OllamaClean(q) == StripEnd(StripStart(StripEnd(q, "."), "\""), "\"")

Includes(q, piece) == \E i \in DOMAIN q : q[i] = piece
IndexOf(q, piece) == CHOOSE i \in DOMAIN q : q[i] = piece /\ \A j \in 1..(i - 1) : q[j] # piece

\* String.split(sep): the pieces before the first sep, and the rest
Before(q, sep) == IF Includes(q, sep) THEN SubSeq(q, 1, IndexOf(q, sep) - 1) ELSE q
After(q, sep) == SubSeq(q, IndexOf(q, sep) + 1, Len(q))

\* thought.replace('<think>', ''): the first one is taken out
Without(q, piece) ==
    IF Includes(q, piece)
    THEN SubSeq(q, 1, IndexOf(q, piece) - 1) \o SubSeq(q, IndexOf(q, piece) + 1, Len(q))
    ELSE q

\* Ollama.chat: `[thought, content] = content.split('</think>')` leaves
\* content undefined when there is no '</think>', and content.trim() throws.
OllamaThrows(reply) ==
    LET cleaned == OllamaClean(reply.content)
    IN Includes(cleaned, "<think>") /\ ~Includes(cleaned, "</think>")

\* Ollama.chat after the await
OllamaMessage(reply) ==
    LET cleaned == OllamaClean(reply.content)
        calls == [i \in DOMAIN reply.tool_calls |->
                     ToolCall(reply.tool_calls[i].id, reply.tool_calls[i].name,
                              reply.tool_calls[i].arguments)]
    IN IF Includes(cleaned, "<think>") /\ Includes(cleaned, "</think>")
       THEN ChatMessage(Trim(Join(Before(After(cleaned, "</think>"), "</think>"), "")),
                        Trim(Join(Without(Before(cleaned, "</think>"), "<think>"), "")),
                        calls)
       ELSE ChatMessage(Join(cleaned, ""), "", calls)

\* What makes chat reject after the provider answered, "none" if nothing.
IngestFailure(kind, reply) ==
    CASE kind = "openai" /\ OpenAiThrows(reply) -> SyntaxError
      [] kind = "ollama" /\ OllamaThrows(reply) -> TypeError
      [] OTHER -> "none"

\* The canonical message chat resolves with.
Ingest(kind, reply) ==
    CASE kind = "anthropic" -> toMessage(reply)
      [] kind = "gemini" -> GeminiMessage(reply)
      [] kind = "openai" -> OpenAiMessage(reply)
      [] kind = "ollama" -> OllamaMessage(reply)

\* ---- one adapter call: chat() or connected()
ApiKeys == {"", "sk-1"}

\* The adapter's state: the call the caller makes and its arguments (op,
\* kind, history, options, apiKey), and what the call did so far.
AdapterState(at, op, kind, h, t, key, req, netCalls, result, raised) ==
    [pc |-> at, op |-> op, kind |-> kind, history |-> h, temperature |-> t,
     tools |-> <<>>, reply |-> DefaultReply(kind), message |-> NoMessage,
     failure |-> "none", apiKey |-> key, request |-> req, netCalls |-> netCalls, probe |-> "none",
     result |-> result, raised |-> raised]

AdapterIdle ==
    AdapterState("idle", "none", "none", <<>>, NoTemp, "", NoRequest, 0, FALSE, FALSE)

\* A chat call on a history with options, or a connected call on an engine
\* with a credential.
AdapterInputs ==
    {AdapterState("idle", "chat", kind, h, t, "sk-1", NoRequest, 0, FALSE, FALSE) :
        kind \in Kinds, h \in Histories, t \in Temps}
    \cup
    {AdapterState("idle", "connected", kind, <<>>, NoTemp, key, NoRequest, 0, FALSE, FALSE) :
        kind \in Kinds, key \in ApiKeys}
    \cup
    {[AdapterState("idle", "chat", kind, <<UserMessage("What's the weather in NYC?")>>,
                   NoTemp, "sk-1", NoRequest, 0, FALSE, FALSE)
         EXCEPT !.tools = <<tool>>] :
        kind \in Kinds, tool \in CanonicalTools}
    \cup
    {AdapterState("idle", "chat", kind, h, NoTemp, "sk-1", NoRequest, 0, FALSE, FALSE) :
        kind \in Kinds, h \in TranslationHistories}
    \cup
    UNION {{[AdapterState("idle", "chat", kind,
                          <<UserMessage("What's the weather in NYC?")>>,
                          NoTemp, "sk-1", NoRequest, 0, FALSE, FALSE)
                EXCEPT !.reply = reply] : reply \in Replies(kind)} :
           kind \in Kinds}

AdapterInit == adapter \in AdapterInputs

\* Slip: the system messages are spliced out of the caller's history.
StartChatSplicesSystem ==
    /\ adapter.pc = "idle" /\ adapter.op = "chat"
    /\ adapter' = [adapter EXCEPT
                      !.pc = "awaitProvider",
                      !.history = Filter(adapter.history, NotSystem),
                      !.request = BuildRequest(adapter.kind, adapter.history,
                                               adapter.temperature, adapter.tools),
                      !.netCalls = 1]
    /\ UNCHANGED <<vars, sync>>

\* chat(model, history, tools, options) up to its await: the request is
\* built from the history and sent.
StartChat ==
    /\ adapter.pc = "idle" /\ adapter.op = "chat"
    /\ adapter' = [adapter EXCEPT
                      !.pc = "awaitProvider",
                      !.request = BuildRequest(adapter.kind, adapter.history,
                                               adapter.temperature, adapter.tools),
                      !.netCalls = 1]
    /\ UNCHANGED <<vars, sync>>

\* The provider answered: chat resolves with the reply's message.
ChatResolves ==
    /\ adapter.pc = "awaitProvider"
    /\ IngestFailure(adapter.kind, adapter.reply) = "none"
    /\ adapter' = [adapter EXCEPT !.pc = "chatDone", !.result = TRUE,
                                  !.message = Ingest(adapter.kind, adapter.reply)]
    /\ UNCHANGED <<vars, sync>>

\* The provider answered with a reply the code after the await throws on:
\* chat rejects with what was thrown.
ChatThrows ==
    /\ adapter.pc = "awaitProvider"
    /\ IngestFailure(adapter.kind, adapter.reply) # "none"
    /\ adapter' = [adapter EXCEPT !.pc = "chatFailed", !.raised = TRUE,
                                  !.failure = IngestFailure(adapter.kind, adapter.reply)]
    /\ UNCHANGED <<vars, sync>>

\* The provider call failed: chat rejects with the provider's failure.
ChatRejects ==
    /\ adapter.pc = "awaitProvider"
    /\ adapter' = [adapter EXCEPT !.pc = "chatFailed", !.raised = TRUE,
                                  !.failure = "ProviderCallError"]
    /\ UNCHANGED <<vars, sync>>

\* new Client(options): only AnthropicClient checks the key.
ConstructorThrows(kind, key) == kind = "anthropic" /\ key = ""

\* connected() returns before any request: only OpenAI checks the key.
ConnectedShortCut(kind, key) == kind = "openai" /\ key = ""

\* The client is made for an engine and connected() runs up to its await.
StartConnected ==
    /\ adapter.pc = "idle" /\ adapter.op = "connected"
    /\ adapter' =
         IF ConstructorThrows(adapter.kind, adapter.apiKey)
         THEN [adapter EXCEPT !.pc = "noClient"]
         ELSE IF ConnectedShortCut(adapter.kind, adapter.apiKey)
         THEN [adapter EXCEPT !.pc = "connDone", !.result = FALSE]
         ELSE [adapter EXCEPT !.pc = "probing", !.netCalls = 1]
    /\ UNCHANGED <<vars, sync>>

\* What the probe request can come back with: it resolves, it rejects, or
\* (OpenAI's asResponse) it resolves with a body that has an `error` member.
ProbeOutcomes(kind) ==
    {"ok", "rejects"} \cup (IF kind = "openai" THEN {"errorBody"} ELSE {})

\* The value connected() resolves to for a settled probe: every client
\* catches a rejection; OpenAI also looks for `error` in the body.
ConnectedValue(kind, outcome) ==
    CASE outcome = "rejects" -> FALSE
      [] outcome = "errorBody" -> FALSE
      [] OTHER -> TRUE

\* Slip: no catch around the probe, its rejection leaves connected().
ProbeSettlesUncaught(outcome) ==
    /\ adapter.pc = "probing"
    /\ adapter' = [adapter EXCEPT !.pc = "connDone", !.probe = outcome,
                                  !.result = ConnectedValue(adapter.kind, outcome),
                                  !.raised = (outcome = "rejects")]
    /\ UNCHANGED <<vars, sync>>

\* The probe request settled: connected() resolves.
ProbeSettles(outcome) ==
    /\ adapter.pc = "probing"
    /\ adapter' = [adapter EXCEPT !.pc = "connDone", !.probe = outcome,
                                  !.result = ConnectedValue(adapter.kind, outcome)]
    /\ UNCHANGED <<vars, sync>>

AdapterNext ==
    \/ StartChat
    \/ ChatResolves
    \/ ChatThrows
    \/ ChatRejects
    \/ StartConnected
    \/ \E outcome \in ProbeOutcomes(adapter.kind) : ProbeSettles(outcome)

\* ------------------------------------------------------------ engine sync
\* Engine.fromSql for every persisted engine row: the adapter is built from
\* the row's type, connected() is awaited and, if it gave true, models().
\* The rows are loaded independently of one another, so their steps
\* interleave.
MaxModels == 2

EngineIds == {"e1", "e2"}

EngineTypes == {"ollama", "openai", "gemini", "openai-compat", "anthropic", "unknown"}

\* Engine.client: the kind -> constructor table; "none" for a type it lacks
ClientKind(type) ==
    CASE type = "ollama" -> "ollama"
      [] type = "openai" -> "openai"
      [] type = "gemini" -> "gemini"
      [] type = "openai-compat" -> "openai"
      [] type = "anthropic" -> "anthropic"
      [] OTHER -> "none"

\* Engine.client: undefined for an unknown type or a constructor that throws
HasClient(type, key) ==
    /\ ClientKind(type) # "none"
    /\ ~ConstructorThrows(ClientKind(type), key)

\* AVAILABLE_MODELS: "all" or the names let through
AVAILABLE_MODELS(type) ==
    CASE type = "openai" -> {"gpt-4o", "o4-mini", "gpt-4.5-preview", "gpt-4.1",
                             "gpt-4.1-mini", "gpt-5"}
      [] type = "gemini" -> {"gemini-2.5-pro", "gemini-2.5-flash",
                             "gemini-2.5-flash-lite", "gemini-2.0-flash",
                             "gemini-2.0-flash-lite"}
      [] type = "anthropic" -> {"claude-3-5-sonnet-20241022",
                                "claude-3-5-haiku-20241022",
                                "claude-3-opus-20250219"}
      [] OTHER -> {"all"}

Allowed(type, name) ==
    \/ AVAILABLE_MODELS(type) = {"all"}
    \/ name \in AVAILABLE_MODELS(type)

\* The names a provider's listing is made of here, and every name in
\* ascending order of the string comparison sortBy uses.
ProviderNames == {"gpt-4o", "gemini-2.5-pro", "davinci-002"}

NameOrder == <<"claude-3-5-sonnet-latest", "claude-3-opus-latest",
               "davinci-002", "gemini-2.5-pro", "gpt-4o">>

Rank(name) == CHOOSE i \in DOMAIN NameOrder : NameOrder[i] = name

\* AnthropicClient.defaultModels (not MiniMax)
AnthropicModels == <<"claude-3-5-sonnet-latest", "claude-3-opus-latest">>

\* What models() can resolve with: a listing without repeated names.
ModelLists ==
    {q \in UNION {[1..n -> ProviderNames] : n \in 0..MaxModels} :
        \A i, j \in DOMAIN q : i # j => q[i] # q[j]}

\* Array.sortBy('name')
RECURSIVE sortBy(_)
sortBy(q) ==
    IF Len(q) = 0 THEN <<>>
    ELSE LET i == CHOOSE i \in DOMAIN q : \A j \in DOMAIN q : Rank(q[i]) <= Rank(q[j])
         IN <<q[i]>> \o sortBy(SubSeq(q, 1, i - 1) \o SubSeq(q, i + 1, Len(q)))

\* The allow-list is not applied.
AttachedModelsUnfiltered(type, list) == sortBy(list)

\* The list attached to the engine: filtered by the allow-list, sorted.
AttachedModels(type, list) ==
    LET ok(name) == Allowed(type, name)
    IN sortBy(SelectSeq(list, ok))

\* An engine row: its type and credential, where its fromSql stands, what
\* its calls gave and the calls it made, in order.
EngineRow(type, key) ==
    [pc |-> "row", type |-> type, apiKey |-> key, client |-> FALSE,
     connected |-> FALSE, listed |-> "none", returned |-> <<>>,
     models |-> <<>>, log |-> <<>>]

SyncIdle == [engines |-> <<>>, raised |-> FALSE]

SyncInit ==
    sync \in [engines : [EngineIds -> {EngineRow(type, key) :
                                          type \in EngineTypes, key \in ApiKeys}],
              raised : {FALSE}]

\* Engine.new and `engine.client && (await engine.client.connected())`:
\* without a client the engine is returned as it is, with one connected()
\* is called.
FromSql(e) ==
    LET row == sync.engines[e]
    IN /\ row.pc = "row"
       /\ sync' = [sync EXCEPT !.engines[e] =
                      IF HasClient(row.type, row.apiKey)
                      THEN [row EXCEPT !.pc = "connecting", !.client = TRUE,
                                       !.log = <<"connected.call">>]
                      ELSE [row EXCEPT !.pc = "done"]]
       /\ UNCHANGED <<vars, adapter>>

\* How connected() can come back for this client and credential.
SyncProbeOutcomes(type, key) ==
    IF ConnectedShortCut(ClientKind(type), key) THEN {"noKey"}
    ELSE ProbeOutcomes(ClientKind(type))

\* models() is entered although connected() gave false.
ConnectedReturnsIgnored(e, outcome) ==
    LET row == sync.engines[e]
        value == ConnectedValue(ClientKind(row.type), outcome) /\ outcome # "noKey"
    IN /\ row.pc = "connecting"
       /\ outcome \in SyncProbeOutcomes(row.type, row.apiKey)
       /\ sync' = [sync EXCEPT !.engines[e] =
                      [row EXCEPT !.pc = "listing", !.connected = value,
                                  !.log = row.log \o <<IF value THEN "connected.true"
                                                       ELSE "connected.false",
                                                       "models.call">>]]
       /\ UNCHANGED <<vars, adapter>>

\* connected() resolved: with true models() is called inside the try, with
\* false the engine is returned with its empty list.
ConnectedReturns(e, outcome) ==
    LET row == sync.engines[e]
        value == ConnectedValue(ClientKind(row.type), outcome) /\ outcome # "noKey"
    IN /\ row.pc = "connecting"
       /\ outcome \in SyncProbeOutcomes(row.type, row.apiKey)
       /\ sync' = [sync EXCEPT !.engines[e] =
                      IF value
                      THEN [row EXCEPT !.pc = "listing", !.connected = TRUE,
                                       !.log = row.log \o <<"connected.true",
                                                            "models.call">>]
                      ELSE [row EXCEPT !.pc = "done",
                                       !.log = row.log \o <<"connected.false">>]]
       /\ UNCHANGED <<vars, adapter>>

\* What models() of this client can resolve with.
Listings(type) ==
    IF ClientKind(type) = "anthropic" THEN {AnthropicModels} ELSE ModelLists

\* models() resolved: the filtered, sorted list is attached.
ModelsResolves(e, list) ==
    LET row == sync.engines[e]
    IN /\ row.pc = "listing"
       /\ list \in Listings(row.type)
       /\ sync' = [sync EXCEPT !.engines[e] =
                      [row EXCEPT !.pc = "done", !.listed = "resolved",
                                  !.returned = list,
                                  !.models = AttachedModels(row.type, list),
                                  !.log = row.log \o <<"models.return">>]]
       /\ UNCHANGED <<vars, adapter>>

\* The rejection leaves fromSql and the whole sync fails.
ModelsRejectsUncaught(e) ==
    LET row == sync.engines[e]
    IN /\ row.pc = "listing"
       /\ ClientKind(row.type) # "anthropic"
       /\ sync' = [sync EXCEPT !.raised = TRUE,
                               !.engines[e] =
                      [row EXCEPT !.pc = "done", !.listed = "rejected",
                                  !.log = row.log \o <<"models.throw">>]]
       /\ UNCHANGED <<vars, adapter>>

\* models() rejected (a request of the listing failed): the catch is a
\* no-op, the list stays empty.  Anthropic's models() makes no request.
ModelsRejects(e) ==
    LET row == sync.engines[e]
    IN /\ row.pc = "listing"
       /\ ClientKind(row.type) # "anthropic"
       /\ sync' = [sync EXCEPT !.engines[e] =
                      [row EXCEPT !.pc = "done", !.listed = "rejected",
                                  !.log = row.log \o <<"models.throw">>]]
       /\ UNCHANGED <<vars, adapter>>

SyncNext ==
    \/ \E e \in EngineIds : FromSql(e)
    \/ \E e \in EngineIds : \E outcome \in {"ok", "errorBody", "rejects", "noKey"} :
          ConnectedReturns(e, outcome)
    \/ \E e \in EngineIds : \E list \in ModelLists \cup {AnthropicModels} :
          ModelsResolves(e, list)
    \/ \E e \in EngineIds : ModelsRejects(e)

\* ---------------------------------------------------------- specifications
allvars == <<vars, adapter, sync>>

\* The dispatch loop; no adapter call or sync is looked at.
DispatchInit == Init /\ adapter = AdapterIdle /\ sync = SyncIdle

Spec == DispatchInit /\ [][Next]_allvars

\* One adapter call on any history, options and credential.
AdapterSpecInit == Init /\ AdapterInit /\ sync = SyncIdle

AdapterSpec == AdapterSpecInit /\ [][AdapterNext]_allvars

\* A sync of two engine rows of any type and credential.
SyncSpecInit == Init /\ adapter = AdapterIdle /\ SyncInit

SyncSpec == SyncSpecInit /\ [][SyncNext]_allvars

\* ------------------------------------------------------------- properties
Last(q) == q[Len(q)]

\* Positions <<j, k>> of the tool calls carried by assistant messages of h.
CallPositions(h) ==
    {<<j, k>> \in (DOMAIN h) \X (1..MaxBatch) :
        h[j].role = "assistant" /\ k \in DOMAIN h[j].toolCalls}

\* The tool calls persisted before position i whose id is `id`.
PriorCallsWithId(i, id) ==
    {p \in CallPositions(history) : p[1] < i /\ history[p[1]].toolCalls[p[2]].id = id}

\* C1: every persisted tool message's toolCallId equals the id of exactly
\* one ToolCall carried by an assistant message persisted earlier.
C1_ToolCallIdResolvesToExactlyOne ==
    \A i \in DOMAIN history :
        history[i].role = "tool" =>
            Cardinality(PriorCallsWithId(i, history[i].toolCallId)) = 1

\* C2: a reply without tool calls executes no tool, is stamped with the
\* engine, model and session, is the one message persisted, is what dispatch
\* returns, and nothing happens after it.
C2_TerminalReply ==
    [][ /\ (pc = "awaitChat" /\ pc' # "failed" /\ Len(message'.toolCalls) = 0) =>
              /\ pc' = "saveFinal"
              /\ message'.engineId = EngineId
              /\ message'.model = ModelId
              /\ message'.sessionId = SessionId
              /\ message'.role = "assistant"
              /\ history' = history
              /\ toolLog' = toolLog
              /\ toolInFlight' = 0
        /\ pc = "saveFinal" =>
              /\ pc' = "done"
              /\ history' = Append(history, message)
              /\ returned' = message
              /\ toolLog' = toolLog
              /\ chatCalls' = chatCalls
              /\ chatInFlight' = 0
        /\ pc = "done" => FALSE
      ]_vars

C2_Witness ==
    /\ pc = "done"
    /\ Len(returned.toolCalls) = 0
    /\ returned.engineId = EngineId
    /\ history = Append(request, returned)

\* C3: of a reply with two or more tool calls only the first is executed and
\* persisted; then the next frame asks the model again with the updated
\* history, and the other calls of the reply are neither executed nor
\* persisted.
C3_OnlyFirstCallOfBatch ==
    [][ /\ (pc \in {"awaitTool", "saveCall", "saveResult"}
              /\ Len(message.toolCalls) >= 2) =>
              /\ Len(toolLog) = chatCalls
              /\ Last(toolLog).name = message.toolCalls[1].name
              /\ Last(toolLog).arguments = message.toolCalls[1].arguments
              /\ Last(toolLog).id = message.toolCalls[1].id
              /\ Len(toolLog') = Len(toolLog)
              /\ pc = "awaitTool" => history' = request
              /\ pc = "saveCall" =>
                    /\ Len(history') = Len(request) + 1
                    /\ Last(history').toolCalls = <<message.toolCalls[1]>>
              /\ pc = "saveResult" =>
                    /\ pc' = "awaitTools"
                    /\ Len(history') = Len(request) + 2
                    /\ history'[Len(request) + 1].toolCalls = <<message.toolCalls[1]>>
                    /\ Last(history').role = "tool"
                    /\ Last(history').toolCalls = <<>>
        /\ pc = "awaitTools" =>
              /\ toolLog' = toolLog
              /\ history' = history
              /\ pc' = "awaitChat" => request' = history
      ]_vars

C3_Witness ==
    /\ pc = "awaitChat"
    /\ chatCalls = 2
    /\ Len(message.toolCalls) >= 2
    /\ Len(toolLog) = 1
    /\ Len(request) = Len(InitialHistory) + 2

\* C4: every tool call that is persisted, answered by a tool message or sent
\* to a provider again has an id that is not empty and that no other call of
\* the conversation has.
C4_IdsNonEmptyAndUnique ==
    /\ \A p \in CallPositions(history) :
          history[p[1]].toolCalls[p[2]].id # NoId
    /\ \A i \in DOMAIN history :
          history[i].role = "tool" => history[i].toolCallId # NoId
    /\ \A p, q \in CallPositions(history) :
          p # q => history[p[1]].toolCalls[p[2]].id # history[q[1]].toolCalls[q[2]].id

\* C5: a round whose reply carries a tool call persists an assistant message
\* with exactly that call and a tool message with the call's id and the
\* value the tool collaborator returned for the call's name and arguments;
\* dispatch returns the first reply that has no tool calls.
C5_RoundPersistsCallAndResult ==
    [][ /\ pc = "saveResult" =>
              /\ Len(history') = Len(request) + 2
              /\ SubSeq(history', 1, Len(request)) = request
              /\ history'[Len(request) + 1].role = "assistant"
              /\ history'[Len(request) + 1].toolCalls = <<message.toolCalls[1]>>
              /\ Last(history').role = "tool"
              /\ Last(history').toolCallId = message.toolCalls[1].id
              /\ Last(history').content = Last(toolLog).result
              /\ Last(toolLog).outcome = "returned"
              /\ Last(toolLog).name = message.toolCalls[1].name
              /\ Last(toolLog).arguments = message.toolCalls[1].arguments
        /\ (pc # "done" /\ pc' = "done") =>
              /\ returned' = message
              /\ Len(message.toolCalls) = 0
              /\ Len(toolLog) = chatCalls - 1
              /\ \A i \in DOMAIN toolLog : toolLog[i].outcome = "returned"
      ]_vars

C5_Witness ==
    /\ pc = "done"
    /\ chatCalls = 2
    /\ Len(history) = Len(InitialHistory) + 3
    /\ history[Len(InitialHistory) + 2].content = "sunny"
    /\ history[Len(InitialHistory) + 2].toolCallId = uuid4(1)

\* C6 (as stated): the assistant message carrying the call is already
\* persisted when the tool collaborator is invoked.
C6_AssistantPersistedBeforeInvoke ==
    pc = "awaitTool" =>
        /\ Len(history) = Len(request) + 1
        /\ Last(history).role = "assistant"
        /\ Last(history).toolCalls = <<call>>

\* C6 (amended): within a tool round the collaborator is invoked first, while
\* nothing of the round is persisted; after it has returned the assistant
\* message carrying the call is persisted, and then the tool message.
C6_InvokeThenPersist ==
    /\ pc = "awaitTool" =>
          /\ history = request
          /\ Last(toolLog).outcome = "pending"
    /\ pc = "saveCall" =>
          /\ history = request
          /\ Last(toolLog).outcome = "returned"
    /\ pc = "saveResult" =>
          /\ Len(history) = Len(request) + 1
          /\ SubSeq(history, 1, Len(request)) = request
          /\ Last(history).role = "assistant"
          /\ Last(history).toolCalls = <<call>>
          /\ Last(toolLog).outcome = "returned"

C6_Witness ==
    /\ pc = "saveResult"
    /\ Last(toolLog).outcome = "returned"
    /\ Last(history).toolCalls = <<call>>

\* C7: a failed tool execution does not abort dispatch; its failure text
\* becomes the content of the tool message.
C7_ToolFailureBecomesToolMessage ==
    (toolLog # <<>> /\ Last(toolLog).outcome = "rejected") =>
        /\ pc # "failed"
        /\ error = "none"
        /\ content = Last(toolLog).result

\* C8: when chat fails dispatch stops with that failure, makes no further
\* provider or tool call, and the persisted messages are exactly those of
\* the earlier rounds.
C8_ChatFailureAborts ==
    [][ /\ (pc = "awaitChat" /\ pc' = "failed") =>
              /\ error' = "ProviderCallError"
              /\ history' = history
              /\ history = request
              /\ Len(history) = Len(InitialHistory) + 2 * (chatCalls - 1)
              /\ toolLog' = toolLog
              /\ chatCalls' = chatCalls
              /\ chatInFlight' = 0
              /\ toolInFlight' = 0
              /\ returned' = returned
        /\ pc = "failed" => FALSE
      ]_vars

C8_Witness ==
    /\ pc = "failed"
    /\ error = "ProviderCallError"
    /\ chatCalls = 2
    /\ Len(history) = Len(InitialHistory) + 2
    /\ Last(history).role = "tool"

\* C9: the number of rounds is bounded: once MaxRounds provider calls have
\* been answered, dispatch does not enter a further round.
C9_RoundsBounded ==
    ~(pc = "awaitTools" /\ chatCalls = MaxRounds)

\* C10: at most one chat call is in flight, and while one is in flight no
\* tool runs and every earlier round's two messages are persisted.
C10_Sequential ==
    /\ chatInFlight <= 1
    /\ toolInFlight <= 1
    /\ chatInFlight = 1 =>
          /\ toolInFlight = 0
          /\ history = request
          /\ Len(toolLog) = chatCalls - 1
          /\ Len(history) = Len(InitialHistory) + 2 * Len(toolLog)
          /\ \A i \in DOMAIN toolLog :
                /\ toolLog[i].outcome = "returned"
                /\ history[Len(InitialHistory) + 2 * i - 1].role = "assistant"
                /\ history[Len(InitialHistory) + 2 * i].role = "tool"

C10_Witness ==
    /\ chatInFlight = 1
    /\ chatCalls = 2
    /\ Last(history).role = "tool"

\* C11: during a dispatch the history only grows: every step keeps the
\* persisted messages, in their order, as a prefix of the new history.
C11_HistoryAppendOnly ==
    [][ /\ Len(history') >= Len(history)
        /\ SubSeq(history', 1, Len(history)) = history
      ]_vars

C11_Witness ==
    /\ pc = "done"
    /\ Len(history) = Len(InitialHistory) + 3
    /\ SubSeq(history, 1, Len(InitialHistory)) = InitialHistory

\* ---- adapter properties (AdapterSpec)
ChatBuilt == adapter.op = "chat" /\ adapter.pc # "idle"

SystemValue(req) == IF req.system.set THEN req.system.v ELSE ""

\* The role a provider with a system channel gives to a non-system message.
ChannelRole(kind, m) ==
    CASE m.role = "assistant" -> (IF kind = "gemini" THEN "model" ELSE "assistant")
      [] OTHER -> "user"

\* C12: for a provider with a separate system channel the side-channel value
\* is the system contents joined by a blank line, and the turn list is
\* exactly the non-system messages, in their order.
C12_SystemChannel ==
    (ChatBuilt /\ adapter.kind \in {"anthropic", "gemini"}) =>
        LET h == adapter.history
            req == adapter.request
            rest == SelectSeq(h, NotSystem)
        IN /\ SystemValue(req) = Join(Contents(SelectSeq(h, IsSystem)), "\n\n")
           /\ Len(req.turns) = Len(rest)
           /\ \A i \in DOMAIN rest :
                 /\ req.turns[i].role = ChannelRole(adapter.kind, rest[i])
                 /\ rest[i].role \in {"user", "tool"} =>
                       req.turns[i].units[1].text = rest[i].content

IsAssistant(m) == m.role = "assistant"
IsAssistantTurn(t) == t.role \in {"assistant", "model"}

\* C13: for every adapter an assistant message with empty content and no
\* tool calls still gets its turn, with at least one content unit: the
\* request has one assistant turn per assistant message, none without units.
C13_EmptyAssistantKeepsTurn ==
    ChatBuilt =>
        /\ Len(SelectSeq(adapter.request.turns, IsAssistantTurn))
              = Len(SelectSeq(adapter.history, IsAssistant))
        /\ \A i \in DOMAIN adapter.request.turns :
              Len(adapter.request.turns[i].units) >= 1

\* C14: the temperature the narrow-range adapter sends is within
\* [0.01, 1]: above 1 gives 1, below 0.01 gives 0.01, a value inside is sent
\* as it is, and an unset value gives 0.8 (in thousandths).
C14_TemperatureClamped ==
    (ChatBuilt /\ adapter.kind = "anthropic") =>
        LET t == adapter.temperature
            sent == adapter.request.temperature
        IN /\ sent.set
           /\ sent.v >= 10 /\ sent.v <= 1000
           /\ ~t.set => sent.v = 800
           /\ (t.set /\ t.v > 1000) => sent.v = 1000
           /\ (t.set /\ t.v < 10) => sent.v = 10
           /\ (t.set /\ t.v >= 10 /\ t.v <= 1000) => sent.v = t.v

C14_Witness ==
    /\ ChatBuilt /\ adapter.kind = "anthropic"
    /\ adapter.temperature = Temp(1500)
    /\ adapter.request.temperature = Temp(1000)

\* C15: connected() never raises: a failing probe gives false, and true is
\* given only for a probe that succeeded.
C15_ConnectedNeverRaises ==
    adapter.op = "connected" =>
        /\ ~adapter.raised
        /\ adapter.pc = "connDone" =>
              /\ adapter.probe \in {"rejects", "errorBody"} => adapter.result = FALSE
              /\ adapter.result = TRUE => (adapter.probe = "ok" /\ adapter.netCalls = 1)

C15_Witness ==
    /\ adapter.op = "connected" /\ adapter.pc = "connDone"
    /\ adapter.probe = "rejects"
    /\ adapter.result = FALSE /\ ~adapter.raised

CredentialKinds == {"anthropic", "gemini", "openai"}

\* C16: on a credential-requiring provider, connected() with an empty
\* credential makes no network call and gives false.
C16_EmptyCredentialNoNetwork ==
    (adapter.op = "connected" /\ adapter.kind \in CredentialKinds
        /\ adapter.apiKey = "" /\ adapter.pc # "idle") =>
        /\ adapter.netCalls = 0
        /\ adapter.result = FALSE

\* C17: chat leaves the history it was given unchanged, whether it resolves
\* or rejects.
C17_ChatKeepsHistory ==
    [][adapter.op = "chat" => adapter'.history = adapter.history]_allvars

C17_Witness ==
    /\ adapter.op = "chat" /\ adapter.pc = "chatFailed"
    /\ adapter.kind = "anthropic"
    /\ Len(adapter.history) = 3
    /\ adapter.history[1].role = "system"
    /\ Len(adapter.request.turns) < Len(adapter.history)

\* C18: the thought of an assistant message of the history is no part of
\* the request.
C18_ThoughtNeverSent ==
    ChatBuilt =>
        \A i \in DOMAIN adapter.request.turns :
            \A k \in DOMAIN adapter.request.turns[i].units :
                LET u == adapter.request.turns[i].units[k]
                IN /\ u.type # "thinking"
                   /\ \A j \in DOMAIN adapter.history :
                         adapter.history[j].thought # "" =>
                             u.text # adapter.history[j].thought

\* ---- engine sync properties (SyncSpec)
Count(q, Is(_)) == Len(SelectSeq(q, Is))

IsConnectedCall(x) == x = "connected.call"
IsConnectedReturn(x) == x \in {"connected.true", "connected.false"}
IsModelsCall(x) == x = "models.call"
IsModelsReturn(x) == x \in {"models.return", "models.throw"}

\* C19: on the sync of an engine every call of models() comes after a
\* connected() that returned true, and at no point are two calls of the
\* engine outstanding.
C19_ConnectedBeforeModels ==
    \A e \in DOMAIN sync.engines :
        LET log == sync.engines[e].log
        IN /\ \A k \in DOMAIN log :
                 log[k] = "models.call" =>
                     /\ \E j \in 1..(k - 1) : log[j] = "connected.true"
                     /\ \A j \in 1..(k - 1) : log[j] # "connected.false"
           /\ \A k \in DOMAIN log :
                 LET before == SubSeq(log, 1, k)
                 IN (Count(before, IsConnectedCall) - Count(before, IsConnectedReturn))
                    + (Count(before, IsModelsCall) - Count(before, IsModelsReturn)) <= 1

C19_Witness ==
    /\ sync.engines # <<>>
    /\ sync.engines["e1"].log = <<"connected.call", "connected.true",
                                  "models.call", "models.return">>
    /\ sync.engines["e2"].log = <<"connected.call", "connected.false">>

\* What the engine's own row decides for its list: empty without a client,
\* with connected() false or with models() failed.
Failed(row) == ~row.client \/ ~row.connected \/ row.listed = "rejected"

\* C20: an engine whose construction failed, whose connected() gave false
\* or whose models() failed ends with an empty list, the sync raises
\* nothing, and an engine's result depends on its own row only: the other
\* engine settles with a list its own listing allows whatever became of
\* the first.
C20_FailuresIsolated ==
    /\ sync.raised = FALSE
    /\ \A e \in DOMAIN sync.engines :
          LET row == sync.engines[e]
          IN /\ (row.pc = "done" /\ Failed(row)) => row.models = <<>>
             /\ (row.pc = "done" /\ ~Failed(row)) =>
                   \E list \in Listings(row.type) :
                       row.models = AttachedModels(row.type, list)
             /\ row.pc # "done" => row.models = <<>>

C20_Witness ==
    /\ sync.engines # <<>>
    /\ sync.engines["e1"].pc = "done" /\ sync.engines["e1"].listed = "rejected"
    /\ sync.engines["e1"].models = <<>>
    /\ sync.engines["e2"].pc = "done"
    /\ sync.engines["e2"].models = <<"davinci-002", "gpt-4o">>
    /\ ~sync.raised

Names(q) == {q[i] : i \in DOMAIN q}

\* C21: after a sync in which models() resolved, the engine's models are
\* exactly the returned models whose name the allow-list of the engine's
\* type has, or all the returned models when the allow-list is "all";
\* nothing else is in the list and no model is in it twice.
C21_AttachedAreAllowedReturned ==
    \A e \in DOMAIN sync.engines :
        LET row == sync.engines[e]
        IN (row.pc = "done" /\ row.listed = "resolved") =>
              /\ Names(row.models) =
                    {name \in Names(row.returned) :
                        \/ AVAILABLE_MODELS(row.type) = {"all"}
                        \/ name \in AVAILABLE_MODELS(row.type)}
              /\ Cardinality(Names(row.models)) = Len(row.models)

C21_Witness ==
    /\ sync.engines # <<>>
    /\ sync.engines["e1"].type = "openai"
    /\ sync.engines["e1"].returned = <<"gpt-4o", "davinci-002">>
    /\ sync.engines["e1"].models = <<"gpt-4o">>
    /\ sync.engines["e2"].type = "ollama"
    /\ sync.engines["e2"].returned = <<"gpt-4o", "davinci-002">>
    /\ Names(sync.engines["e2"].models) = {"gpt-4o", "davinci-002"}

ToolsGiven == ChatBuilt /\ Len(adapter.tools) > 0

\* C22: for every adapter the translated tool definitions keep, tool by
\* tool, the name, the description, the required list and the property
\* names (with each property's description); only type fields may differ.
C22_ToolTranslationPreserves ==
    ToolsGiven =>
        LET sent == adapter.request.tools
        IN /\ sent.set
           /\ Len(sent.v) = Len(adapter.tools)
           /\ \A i \in DOMAIN adapter.tools :
                 /\ sent.v[i].name = adapter.tools[i].name
                 /\ sent.v[i].description = adapter.tools[i].description
                 /\ sent.v[i].required = adapter.tools[i].required
                 /\ DOMAIN sent.v[i].properties = DOMAIN adapter.tools[i].properties
                 /\ \A n \in DOMAIN adapter.tools[i].properties :
                       sent.v[i].properties[n].description =
                           adapter.tools[i].properties[n].description

C22_Witness ==
    /\ ToolsGiven /\ adapter.kind = "anthropic"
    /\ adapter.tools[1].required = <<"location">>
    /\ DOMAIN adapter.tools[1].properties = {"location", "unit"}
    /\ adapter.request.tools.v[1].required = <<"location">>

\* The tag of the type-enum provider for a canonical type.
TypeTag(type) ==
    CASE type = "string" -> "STRING"
      [] type = "number" -> "NUMBER"
      [] type = "boolean" -> "BOOLEAN"
      [] type = "integer" -> "INTEGER"
      [] type = "array" -> "ARRAY"
      [] type = "object" -> "OBJECT"

\* C23: in the type-enum provider's translation a property of type string,
\* number, boolean, integer, array or object has that type's tag, and a
\* property of any other type or of none has the string tag.
C23_TypeTags ==
    (ToolsGiven /\ adapter.kind = "gemini") =>
        \A i \in DOMAIN adapter.tools :
            \A n \in DOMAIN adapter.tools[i].properties :
                LET type == adapter.tools[i].properties[n].type
                    tag == adapter.request.tools.v[i].properties[n].type
                IN IF type \in {"string", "number", "boolean", "integer",
                                "array", "object"}
                   THEN tag = TypeTag(type)
                   ELSE tag = "STRING"

ChatSettled == adapter.op = "chat" /\ adapter.pc \in {"chatDone", "chatFailed"}

\* C24: when the reply of the provider with serialized arguments carries a
\* tool call whose arguments do not parse, chat does not resolve: it
\* rejects to its caller, with the parse error when the provider call
\* itself succeeded, and no message (so no call of the reply, and nothing
\* to persist) comes out of it.
C24_MalformedArgumentsFailChat ==
    (ChatSettled /\ adapter.kind = "openai"
        /\ \E i \in DOMAIN adapter.reply.tool_calls :
              adapter.reply.tool_calls[i].arguments = BadArguments) =>
        /\ adapter.pc = "chatFailed"
        /\ adapter.raised
        /\ adapter.failure \in {"SyntaxError", "ProviderCallError"}
        /\ adapter.message = NoMessage

C24_Witness ==
    /\ ChatSettled /\ adapter.kind = "openai"
    /\ Len(adapter.reply.tool_calls) = 2
    /\ adapter.reply.tool_calls[1].arguments = GoodArguments
    /\ adapter.reply.tool_calls[2].arguments = BadArguments
    /\ adapter.failure = "SyntaxError"
    /\ adapter.raised

\* The tool-invocation units of a reply as tool calls, in the reply's order.
ReplyCalls(kind, reply) ==
    CASE kind = "anthropic" ->
            LET uses == SelectSeq(reply.content, IsToolUseBlock)
            IN [i \in DOMAIN uses |-> ToolCall(uses[i].id, uses[i].name, uses[i].input)]
      [] kind = "openai" ->
            [i \in DOMAIN reply.tool_calls |->
                ToolCall(reply.tool_calls[i].id, reply.tool_calls[i].name, "NYC")]
      [] kind = "gemini" ->
            [i \in DOMAIN reply.functionCalls |->
                ToolCall(reply.functionCalls[i].id, reply.functionCalls[i].name,
                         reply.functionCalls[i].arguments)]
      [] kind = "ollama" ->
            [i \in DOMAIN reply.tool_calls |->
                ToolCall(reply.tool_calls[i].id, reply.tool_calls[i].name,
                         reply.tool_calls[i].arguments)]

\* C27: the message chat resolves with has role assistant and one ToolCall
\* per tool-invocation unit of the reply, in order, with the unit's id, name
\* and arguments; its thought holds reasoning text only and its content
\* visible text only.
C27_IngestionKeepsUnits ==
    (adapter.op = "chat" /\ adapter.pc = "chatDone") =>
        /\ adapter.message.role = "assistant"
        /\ adapter.message.toolCalls = ReplyCalls(adapter.kind, adapter.reply)
        /\ adapter.message.thought \in {"", "hmm", "hmm\n\nhmm"}
        /\ adapter.message.content \in {"", "hi", "ho", "hiho", "hi\n\nhi"}

\* The turn of the block-structured request that stands for message j of
\* the history (system messages have none).
TurnOf(j) ==
    adapter.request.turns[Len(SelectSeq(SubSeq(adapter.history, 1, j), NotSystem))]

\* The units the claim lists for an assistant message.
ListedUnits(m) ==
    (IF m.thought # "" THEN <<Unit("thinking", m.thought, NoId, "", "")>> ELSE <<>>)
    \o (IF m.content # "" THEN <<Unit("text", m.content, NoId, "", "")>> ELSE <<>>)
    \o [k \in DOMAIN m.toolCalls |->
           Unit("tool_use", "", m.toolCalls[k].id, m.toolCalls[k].name,
                m.toolCalls[k].arguments)]

\* C25 as stated: the units of an assistant turn are the thinking unit, the
\* text unit and the tool_use units the message gives rise to, and no other.
C25_AssistantUnitsAsListed ==
    (ChatBuilt /\ adapter.kind = "anthropic") =>
        \A j \in DOMAIN adapter.history :
            adapter.history[j].role = "assistant" =>
                /\ TurnOf(j).role = "assistant"
                /\ TurnOf(j).units = ListedUnits(adapter.history[j])

\* C25 (amended): for the block-structured provider an assistant message
\* gives an assistant turn whose units are, in order, a thinking unit if
\* there is a thought, a text unit if there is content, one tool_use unit
\* per tool call with its id, name and arguments; a message with none of
\* them gives a single empty text unit.
C25_AssistantUnitsOrEmptyText ==
    (ChatBuilt /\ adapter.kind = "anthropic") =>
        \A j \in DOMAIN adapter.history :
            adapter.history[j].role = "assistant" =>
                /\ TurnOf(j).role = "assistant"
                /\ TurnOf(j).units =
                      IF ListedUnits(adapter.history[j]) = <<>>
                      THEN <<Unit("text", "", NoId, "", "")>>
                      ELSE ListedUnits(adapter.history[j])

C25_Witness ==
    /\ ChatBuilt /\ adapter.kind = "anthropic"
    /\ Len(adapter.history) = 1
    /\ adapter.history[1].thought = "hmm" /\ adapter.history[1].content = "ok"
    /\ adapter.history[1].toolCalls = <<PoolCall2, PoolCall>>
    /\ Len(adapter.request.turns[1].units) = 4
    /\ adapter.request.turns[1].units[3].name = "get_time"

\* The canonical invariant of a tool message: its toolCallId is the id of a
\* call of an earlier assistant message.
HasEarlierCall(j) ==
    /\ adapter.history[j].toolCallId # NoId
    /\ \E i \in 1..(j - 1) :
          /\ adapter.history[i].role = "assistant"
          /\ \E k \in DOMAIN adapter.history[i].toolCalls :
                adapter.history[i].toolCalls[k].id = adapter.history[j].toolCallId

\* C26: for the block-structured provider a tool message gives a user turn
\* with one tool_result unit that has the message's content as its text
\* and, when an earlier assistant message has a call with the message's
\* toolCallId, that id (which is not empty) as its tool_use_id.
C26_ToolResultTurn ==
    (ChatBuilt /\ adapter.kind = "anthropic") =>
        \A j \in DOMAIN adapter.history :
            adapter.history[j].role = "tool" =>
                /\ TurnOf(j).role = "user"
                /\ Len(TurnOf(j).units) = 1
                /\ TurnOf(j).units[1].type = "tool_result"
                /\ TurnOf(j).units[1].text = adapter.history[j].content
                /\ HasEarlierCall(j) =>
                      /\ TurnOf(j).units[1].id = adapter.history[j].toolCallId
                      /\ TurnOf(j).units[1].id # NoId

C26_Witness ==
    /\ ChatBuilt /\ adapter.kind = "anthropic"
    /\ Len(adapter.history) = 3
    /\ adapter.history[1].toolCalls = <<PoolCall>>
    /\ adapter.history[2].toolCalls = <<PoolCall2>>
    /\ adapter.history[3].role = "tool"
    /\ adapter.history[3].toolCallId = PoolCall2.id
    /\ adapter.request.turns[3].units[1].id = PoolCall2.id

\* ---- dispatch properties (Spec), continued
\* C28: while dispatch waits for the provider, after it returned and after
\* it stopped on a failure, every persisted assistant message with a tool
\* call has exactly one and is directly followed by the tool message with
\* that call's id as toolCallId.
C28_NoDanglingToolCall ==
    pc \in {"awaitChat", "done", "failed"} =>
        \A i \in DOMAIN history :
            (history[i].role = "assistant" /\ Len(history[i].toolCalls) > 0) =>
                /\ Len(history[i].toolCalls) = 1
                /\ i < Len(history)
                /\ history[i + 1].role = "tool"
                /\ history[i + 1].toolCallId = history[i].toolCalls[1].id

C28_Witness ==
    /\ pc = "failed"
    /\ error = "ToolExecutionFailure"
    /\ chatCalls = 2
    /\ Len(history) = Len(InitialHistory) + 2
    /\ history[Len(InitialHistory) + 1].toolCalls # <<>>

C30_RoundMessageHasNoText ==
    \A i \in (Len(InitialHistory) + 1)..Len(history) :
        history[i].role = "assistant" =>
            /\ Len(history[i].toolCalls) > 0 =>
                  (history[i].content = "" /\ history[i].thought = "")
            /\ (history[i].content # "" \/ history[i].thought # "") =>
                  /\ pc = "done"
                  /\ i = Len(history)
                  /\ history[i] = returned

C30_Witness ==
    /\ pc = "saveResult"
    /\ message.content = "hi" /\ message.thought = "hmm"
    /\ Len(message.toolCalls) = 2
    /\ history[Len(history)].role = "assistant"
    /\ history[Len(history)].toolCalls = <<call>>
    /\ history[Len(history)].content = ""
    /\ history[Len(history)].thought = ""

====
